---- MODULE Spec2Model ----
\* Two HTTP services of labs/docker/multi-service: service-a (the upstream,
\* /greet behind authMiddleware, /health) and service-b (the downstream,
\* /process calling the upstream's /greet, /health), each with the same
\* lifecycle in main: a serving goroutine (Start) and the main path waiting
\* for a termination signal and calling Shutdown with a 10 s context.
\*
\* One process is observed at a time (svc, chosen in Init); for service-b the
\* upstream is the environment of the outbound call: unreachable, a genuine
\* service-a (computed by service-a's own handlers), or some other server.
EXTENDS Integers, Sequences, FiniteSets, TLC

VARIABLES
    svc,        \* which service this process is: "a" or "b"
    env,        \* the process environment read by main
    config,     \* *Config built by main from env
    upstreamKey,\* AuthKey of the service-a process the downstream can reach
    stop,       \* number of signals buffered in the stop channel (capacity 1)
    signalled,  \* a termination signal has been delivered to the process
    mainPc,     \* position of the main path
    servePc,    \* position of the serving goroutine
    inShutdown, \* http.Server.inShutdown
    listener,   \* "none", "failed", "bound", "tracked", "closed"
    conns,      \* accepted connections, in order of acceptance
    now,        \* wall clock, seconds
    sdStart,    \* time the shutdown context was created, -1 before
    sdErr,      \* what server.Shutdown returned: "pending", "nil", "deadline"
    exitCode,   \* -1 while the process runs, else its exit status
    nextId,     \* uuid.New(): the next fresh identifier
    last        \* the exchange the most recently finished handler produced

vars == << svc, env, config, upstreamKey, stop, signalled, mainPc, servePc,
           inShutdown, listener, conns, now, sdStart, sdErr, exitCode,
           nextId, last >>

-----------------------------------------------------------------------------
\* Bounds of the model.

\* connections accepted over the process's life
MaxConns == 2
\* latest time (s) the clock reaches before the shutdown context exists
MaxTime == 5
\* longest key (bytes) maskAuthKey is applied to on its own
MaxKeyLen == 8

-----------------------------------------------------------------------------
\* Program constants (seconds, HTTP status codes).

ReadTimeout == 5
WriteTimeout == 10
IdleTimeout == 15
ClientTimeout == 5
ShutdownWindow == 10

StatusOK == 200
StatusUnauthorized == 401
StatusNotFound == 404
StatusInternalServerError == 500
StatusServiceUnavailable == 503

\* Strings the code compares byte by byte are sequences of characters.
DefaultSecretKey ==
    << "d","e","f","a","u","l","t","-","s","e","c","r","e","t","-","k","e","y" >>
\* the key docker-compose.yml and the Makefile configure for both services
ComposeSecretKey ==
    << "s","e","r","v","i","c","e","-","a","-","s","e","c","r","e","t","-","k","e","y" >>
\* same length as ComposeSecretKey, differs in the last byte only
NearMissKey ==
    << "s","e","r","v","i","c","e","-","a","-","s","e","c","r","e","t","-","k","e","x" >>
\* Header.Get and os.Getenv give "" for an absent header or variable
Empty == << >>

NoId == 0
NoStatus == 0

-----------------------------------------------------------------------------
\* http.ResponseWriter as the client sees it.

NewWriter ==
    [ wroteHeader |-> FALSE, status |-> NoStatus, contentType |-> "",
      xRequestID |-> NoId, body |-> << >> ]

\* A piece of body: kind "greeting" (service-a's Response), "combined"
\* (service-b's Response), "health" (the status map) or "text" (http.Error).
Chunk(kind, a, b, id, port, text) ==
    [ kind |-> kind, message |-> a, service_b_message |-> b,
      request_id |-> id, server_port |-> port, text |-> text ]

TextChunk(msg) == Chunk("text", "", "", NoId, "", msg)

\* w.Header().Set: headers set after the status line was written are not sent
SetContentType(w, v) ==
    IF w.wroteHeader THEN w ELSE [w EXCEPT !.contentType = v]

SetXRequestID(w, id) ==
    IF w.wroteHeader THEN w ELSE [w EXCEPT !.xRequestID = id]

\* w.WriteHeader: the first call commits the status, later calls are ignored
WriteHeader(w, code) ==
    IF w.wroteHeader THEN w
    ELSE [w EXCEPT !.wroteHeader = TRUE, !.status = code]

\* w.Write: commits 200 when no status was written yet
Write(w, chunk) ==
    LET w1 == WriteHeader(w, StatusOK)
    IN  [w1 EXCEPT !.body = Append(@, chunk)]

\* http.Error(w, msg, code)
HttpError(w, msg, code) ==
    Write(WriteHeader(SetContentType(w, "text/plain; charset=utf-8"), code),
          TextChunk(msg))

\* json.NewEncoder(w).Encode(v): ok = FALSE is the encoder returning an error,
\* nothing of v having reached the client
Encode(w, chunk, ok) ==
    IF ok THEN Write(w, chunk) ELSE w

-----------------------------------------------------------------------------
\* Request-scoped context: the value stored under "request_id", NoId when
\* nothing is stored under that key.

BaseContext == [ request_id |-> NoId ]

WithRequestId(ctx, id) == [ctx EXCEPT !.request_id = id]

\* ctx.Value("request_id").(string) panics when no string is stored
HasRequestId(ctx) == ctx.request_id # NoId

\* What a handler run produces.
Exchange(w, rid, greetCalls, authChecks, outbound, panicked, encodeErr, ids, opened, closed, upRid) ==
    [ w |-> w, rid |-> rid, greetCalls |-> greetCalls,
      authChecks |-> authChecks, outbound |-> outbound,
      panicked |-> panicked, encodeErr |-> encodeErr, idsUsed |-> ids,
      bodyOpened |-> opened, bodyClosed |-> closed, upstreamRid |-> upRid,
      logs |-> << >>, sent |-> << >> ]

\* A record the slog logger writes: its level, message and attribute names,
\* and the values of the attributes request_id, status_code and of the one
\* that carries a key (auth_key_provided, auth_key_masked, default_key).
LogRecord(level, msg, attrs, rid, status, key) ==
    [ level |-> level, msg |-> msg, attrs |-> attrs, request_id |-> rid,
      status_code |-> status, key |-> key ]

RequestAttrs == { "request_id", "client_ip", "method", "path" }

\* a handler that dispatches the request again when the call did not end in
\* its response
Sent_Retried(outReq, x) ==
    [x EXCEPT !.sent = IF x.w.status = StatusOK THEN << outReq >> \o @
                       ELSE << outReq, outReq >> \o @]

\* s.client.Do(outReq) was called before what the exchange x went on to do
Sent(outReq, x) == [x EXCEPT !.sent = << outReq >> \o @]

\* the records logs were written before what the exchange x went on to log
Logged(logs, x) == [x EXCEPT !.logs = logs \o @]

\* a panic in a handler that closes the body at its end instead of deferring
Panic_NoDefer(rid, authChecks, outbound, ids, bodyOpened, upstreamRid) ==
    Exchange(NewWriter, rid, 0, authChecks, outbound, TRUE, FALSE, ids,
             bodyOpened, FALSE, upstreamRid)

\* net/http recovers a handler's panic and closes the connection: what was
\* not yet flushed is never sent.
Panic(rid, authChecks, outbound, ids, bodyOpened, upstreamRid) ==
    Exchange(NewWriter, rid, 0, authChecks, outbound, TRUE, FALSE, ids,
             bodyOpened, bodyOpened, upstreamRid)

-----------------------------------------------------------------------------
\* maskAuthKey, the same function in both services; len and the slices of a
\* Go string count bytes.

Mask == << "*", "*", "*", "*" >>

\* a mask that lets keys of exactly 4 bytes through
A_maskAuthKey_Inclusive(key) ==
    IF Len(key) >= 4
    THEN SubSeq(key, 1, 2) \o Mask \o SubSeq(key, Len(key) - 1, Len(key))
    ELSE Mask

\* service-a's copy
A_maskAuthKey(key) ==
    IF Len(key) > 4
    THEN SubSeq(key, 1, 2) \o Mask \o SubSeq(key, Len(key) - 1, Len(key))
    ELSE Mask

\* service-b's copy
B_maskAuthKey(key) ==
    IF Len(key) > 4
    THEN SubSeq(key, 1, 2) \o Mask \o SubSeq(key, Len(key) - 1, Len(key))
    ELSE Mask

-----------------------------------------------------------------------------
\* service-a

\* a comparison that stops at the lengths
ConstantTimeCompare_LengthOnly(x, y) ==
    IF Len(x) # Len(y) THEN 0 ELSE 1

\* subtle.ConstantTimeCompare: 0 when the lengths differ, else the OR of the
\* byte-wise XORs decides
ConstantTimeCompare(x, y) ==
    IF Len(x) # Len(y) THEN 0
    ELSE IF \A i \in 1..Len(x) : x[i] = y[i] THEN 1 ELSE 0

\* handleGreet setting X-Request-ID after the status line is written
A_handleGreet_LateHeader(w, ctx, encodeOk, authChecks) ==
    LET requestID == ctx.request_id
        response == Chunk("greeting", "Hello from Service A!", "", requestID,
                          "", "")
        w1 == SetContentType(w, "application/json")
        w2 == WriteHeader(w1, StatusOK)
        w3 == SetXRequestID(w2, requestID)
        w4 == Encode(w3, response, encodeOk)
    IN  Exchange(w4, requestID, 1, authChecks, 0, FALSE, ~encodeOk, 1, FALSE,
                 FALSE, NoId)

\* handleGreet, run with the request context ctx on the writer w
A_handleGreet(w, ctx, encodeOk, authChecks) ==
    IF ~HasRequestId(ctx)
    THEN Panic(NoId, authChecks, 0, 1, FALSE, NoId)
    ELSE
      LET requestID == ctx.request_id
          response == Chunk("greeting", "Hello from Service A!", "",
                            requestID, "", "")
          w1 == SetContentType(w, "application/json")
          w2 == SetXRequestID(w1, requestID)
          w3 == WriteHeader(w2, StatusOK)
          w4 == Encode(w3, response, encodeOk)
          w5 == IF encodeOk THEN w4
                ELSE HttpError(w4, "Internal Server Error",
                               StatusInternalServerError)
          received == LogRecord("INFO", "Processing greeting request",
                                RequestAttrs, requestID, NoStatus, Empty)
          outcome ==
            IF encodeOk
            THEN LogRecord("INFO", "Greeting request processed successfully",
                           { "request_id", "client_ip", "processing_time",
                             "response_message" },
                           requestID, NoStatus, Empty)
            ELSE LogRecord("ERROR", "Failed to encode response",
                           { "error", "request_id", "client_ip",
                             "processing_time" },
                           requestID, NoStatus, Empty)
      IN  Logged(<< received, outcome >>,
                 Exchange(w5, requestID, 1, authChecks, 0, FALSE, ~encodeOk, 1,
                          FALSE, FALSE, NoId))

\* an authMiddleware whose rejection lacks the return
A_authMiddleware_NoReturn(cfg, req, id, encodeOk) ==
    LET requestID == id
        ctx == WithRequestId(req.ctx, requestID)
        authKey == req.authKey
        attempt == LogRecord("INFO", "Authentication attempt", RequestAttrs,
                             requestID, NoStatus, Empty)
        failed == LogRecord("WARN", "Authentication failed",
                            RequestAttrs \cup { "auth_key_provided" },
                            requestID, NoStatus, A_maskAuthKey(authKey))
        successful == LogRecord("INFO", "Authentication successful",
                                RequestAttrs, requestID, NoStatus, Empty)
    IN  IF ConstantTimeCompare(authKey, cfg.AuthKey) # 1
        THEN Logged(<< attempt, failed, successful >>,
                    A_handleGreet(HttpError(NewWriter, "Unauthorized",
                                            StatusUnauthorized),
                                  ctx, encodeOk, 1))
        ELSE Logged(<< attempt, successful >>,
                    A_handleGreet(NewWriter, ctx, encodeOk, 1))

\* an authMiddleware that logs the provided key as it came
A_authMiddleware_RawLog(cfg, req, id, encodeOk) ==
    LET requestID == id
        ctx == WithRequestId(req.ctx, requestID)
        authKey == req.authKey
        attempt == LogRecord("INFO", "Authentication attempt", RequestAttrs,
                             requestID, NoStatus, Empty)
        failed == LogRecord("WARN", "Authentication failed",
                            RequestAttrs \cup { "auth_key_provided" },
                            requestID, NoStatus, authKey)
        successful == LogRecord("INFO", "Authentication successful",
                                RequestAttrs, requestID, NoStatus, Empty)
    IN  IF ConstantTimeCompare(authKey, cfg.AuthKey) # 1
        THEN Logged(<< attempt, failed >>,
                    Exchange(HttpError(NewWriter, "Unauthorized",
                                       StatusUnauthorized),
                             requestID, 0, 1, 0, FALSE, FALSE, 1, FALSE, FALSE,
                             NoId))
        ELSE Logged(<< attempt, successful >>,
                    A_handleGreet(NewWriter, ctx, encodeOk, 1))

\* the handler authMiddleware(handleGreet) that NewServer registers on /greet
A_authMiddleware(cfg, req, id, encodeOk) ==
    LET requestID == id
        ctx == WithRequestId(req.ctx, requestID)
        authKey == req.authKey
        attempt == LogRecord("INFO", "Authentication attempt", RequestAttrs,
                             requestID, NoStatus, Empty)
        failed == LogRecord("WARN", "Authentication failed",
                            RequestAttrs \cup { "auth_key_provided" },
                            requestID, NoStatus, A_maskAuthKey(authKey))
        successful == LogRecord("INFO", "Authentication successful",
                                RequestAttrs, requestID, NoStatus, Empty)
    IN  IF ConstantTimeCompare(authKey, cfg.AuthKey) # 1
        THEN Logged(<< attempt, failed >>,
                    Exchange(HttpError(NewWriter, "Unauthorized",
                                       StatusUnauthorized),
                             requestID, 0, 1, 0, FALSE, FALSE, 1, FALSE, FALSE,
                             NoId))
        ELSE Logged(<< attempt, successful >>,
                    A_handleGreet(NewWriter, ctx, encodeOk, 1))

\* handleHealth of either service: the error of Encode is dropped
HealthExchange(cfg, id, encodeOk) ==
    LET requestID == id
        status == Chunk("health", "", "", requestID, cfg.Port, "healthy")
        w1 == SetContentType(NewWriter, "application/json")
        w2 == WriteHeader(w1, StatusOK)
        w3 == Encode(w2, status, encodeOk)
        received == LogRecord("INFO", "Health check received", RequestAttrs,
                              requestID, NoStatus, Empty)
        completed == LogRecord("INFO", "Health check completed",
                               { "request_id", "processing_time" },
                               requestID, NoStatus, Empty)
    IN  Logged(<< received, completed >>,
               Exchange(w3, requestID, 0, 0, 0, FALSE, FALSE, 1, FALSE, FALSE,
                        NoId))

A_handleHealth(cfg, req, id, encodeOk) == HealthExchange(cfg, id, encodeOk)

\* http.NotFound, the mux's answer for a path nothing is registered on
NotFound ==
    Exchange(HttpError(NewWriter, "404 page not found", StatusNotFound),
             NoId, 0, 0, 0, FALSE, FALSE, 0, FALSE, FALSE, NoId)

\* a mux with /health registered behind authMiddleware as /greet is
A_ServeMux_AuthHealth(cfg, req, id, encodeOk) ==
    IF req.path \in { "/greet", "/health" }
    THEN IF ConstantTimeCompare(req.authKey, cfg.AuthKey) # 1
         THEN Exchange(HttpError(NewWriter, "Unauthorized", StatusUnauthorized),
                       id, 0, 1, 0, FALSE, FALSE, 1, FALSE, FALSE, NoId)
         ELSE IF req.path = "/greet"
              THEN A_handleGreet(NewWriter, WithRequestId(req.ctx, id),
                                 encodeOk, 1)
              ELSE HealthExchange(cfg, id, encodeOk)
    ELSE NotFound

\* the mux NewServer builds for service-a
A_ServeMux(cfg, req, id, encodeOk) ==
    CASE req.path = "/greet"  -> A_authMiddleware(cfg, req, id, encodeOk)
      [] req.path = "/health" -> A_handleHealth(cfg, req, id, encodeOk)
      [] OTHER                -> NotFound

-----------------------------------------------------------------------------
\* service-b

\* http.NewRequestWithContext fails when the URL does not parse
ValidURL(url) == url # "::bad"

\* The outcome of s.client.Do(req): up.kind is "unreachable" (refused, or no
\* answer within ClientTimeout), "service-a" (a genuine service-a whose secret
\* is upKey, answering with the id upId it mints) or "other" (any server).
Do(outReq, up, upKey, upId) ==
    CASE up.kind = "unreachable" ->
           [ err |-> TRUE, status |-> NoStatus, payload |-> TextChunk(""),
             readErr |-> FALSE ]
      [] up.kind = "service-a" ->
           LET x == A_ServeMux([AuthKey |-> upKey, Port |-> "8080"],
                               [path |-> "/greet", authKey |-> outReq.xAuthKey,
                                xRequestID |-> outReq.xRequestID,
                                ctx |-> BaseContext],
                               upId, TRUE)
           IN  [ err |-> FALSE, status |-> x.w.status,
                 payload |-> x.w.body[1], readErr |-> FALSE ]
      [] OTHER ->
           [ err |-> FALSE, status |-> up.status, payload |-> up.payload,
             readErr |-> up.readErr ]

\* json.Unmarshal(body, &serviceAResp): any JSON object decodes, fields that
\* are absent stay zero; a body that is not JSON is an error
UnmarshalOk(payload) == payload.kind \in {"greeting", "health", "combined"}

\* a decode into a field the JSON key "message" does not reach
UnmarshalMessage_Unmapped(payload) == ""

UnmarshalMessage(payload) ==
    IF payload.kind = "greeting" THEN payload.message ELSE ""

UnmarshalRequestID(payload) ==
    IF payload.kind \in {"greeting", "health", "combined"}
    THEN payload.request_id ELSE NoId

\* an outbound request without the X-Request-ID header
B_NewRequest_NoRequestID(cfg, ctx, requestID) ==
    [ method |-> "GET", url |-> << cfg.ServiceAURL, "/greet" >>,
      xAuthKey |-> cfg.ServiceAAuthKey, xRequestID |-> NoId, ctx |-> ctx ]

\* http.NewRequestWithContext(ctx, "GET", ServiceAURL + "/greet", nil) and the
\* two req.Header.Set
B_NewRequest(cfg, ctx, requestID) ==
    [ method |-> "GET", url |-> << cfg.ServiceAURL, "/greet" >>,
      xAuthKey |-> cfg.ServiceAAuthKey, xRequestID |-> requestID, ctx |-> ctx ]

\* a combined response that passes the upstream's id on
CombinedResponse_UpstreamId(message, requestID, upRid) ==
    Chunk("combined", message, "Hello from Service B!", upRid, "", "")

\* Response{ServiceAMessage, ServiceBMessage, RequestID, Timestamp}
CombinedResponse(message, requestID, upRid) ==
    Chunk("combined", message, "Hello from Service B!", requestID, "", "")

\* handleError reads the id from r.Context(), the context of the request as
\* the server handed it to the handler
B_handleError(w, r, rid, logMessage, statusCode, outbound, bodyOpened, upRid) ==
    IF ~HasRequestId(r.ctx)
    THEN Panic(rid, 0, outbound, 1, bodyOpened, upRid)
    ELSE Logged(<< LogRecord("ERROR", logMessage,
                             { "error", "request_id", "client_ip", "method",
                               "path", "status_code" },
                             r.ctx.request_id, statusCode, Empty) >>,
                Exchange(HttpError(w, logMessage, statusCode), rid, 0, 0,
                         outbound, FALSE, FALSE, 1, bodyOpened, bodyOpened,
                         upRid))

\* handleProcess: ctx carries the id into the outbound request only; r keeps
\* the context it came with
B_handleProcess(cfg, r, id, up, upKey, upId, encodeOk) ==
    LET requestID == id
        ctx == WithRequestId(r.ctx, requestID)
        w == NewWriter
        processing == LogRecord("INFO",
                                "Processing service interaction request",
                                RequestAttrs, requestID, NoStatus, Empty)
    IN
    IF ~ValidURL(cfg.ServiceAURL)
    THEN Logged(<< processing >>,
                B_handleError(w, r, requestID,
                              "Failed to create request to Service A",
                              StatusInternalServerError, 0, FALSE, NoId))
    ELSE
      LET outReq == B_NewRequest(cfg, ctx, requestID)
          calling == LogRecord("INFO", "Calling Service A",
                               { "request_id", "service_a_url",
                                 "auth_key_masked" },
                               requestID, NoStatus,
                               B_maskAuthKey(cfg.ServiceAAuthKey))
          resp == Do(outReq, up, upKey, upId)
          received == LogRecord("INFO", "Received response from Service A",
                                { "request_id", "status_code" },
                                requestID, resp.status, Empty)
          upRid == UnmarshalRequestID(resp.payload)
      IN
      Sent(outReq,
      IF resp.err
      THEN Logged(<< processing, calling >>,
                  B_handleError(w, r, requestID, "Failed to call Service A",
                                StatusServiceUnavailable, 1, FALSE, NoId))
      ELSE IF resp.status # StatusOK
      THEN Logged(<< processing, calling, received >>,
                  B_handleError(w, r, requestID, "Service A request failed",
                                resp.status, 1, TRUE, NoId))
      ELSE IF resp.readErr
      THEN Logged(<< processing, calling, received >>,
                  B_handleError(w, r, requestID,
                                "Failed to read Service A response",
                                StatusInternalServerError, 1, TRUE, NoId))
      ELSE IF ~UnmarshalOk(resp.payload)
      THEN Logged(<< processing, calling, received >>,
                  B_handleError(w, r, requestID,
                                "Failed to parse Service A response",
                                StatusInternalServerError, 1, TRUE, NoId))
      ELSE
        LET response == CombinedResponse(UnmarshalMessage(resp.payload),
                                         requestID, upRid)
            w1 == SetContentType(w, "application/json")
            w2 == SetXRequestID(w1, requestID)
            w3 == WriteHeader(w2, StatusOK)
            w4 == Encode(w3, response, encodeOk)
            w5 == IF encodeOk THEN w4
                  ELSE HttpError(w4, "Internal Server Error",
                                 StatusInternalServerError)
            preparing == LogRecord("INFO", "Preparing response",
                                   { "request_id", "service_a_message",
                                     "service_b_message" },
                                   requestID, NoStatus, Empty)
            outcome ==
              IF encodeOk
              THEN LogRecord("INFO", "Process request completed successfully",
                             { "request_id", "client_ip",
                               "service_a_request_id", "processing_time" },
                             requestID, NoStatus, Empty)
              ELSE LogRecord("ERROR", "Failed to encode response",
                             { "error", "request_id", "client_ip",
                               "processing_time" },
                             requestID, NoStatus, Empty)
        IN  Logged(<< processing, calling, received, preparing, outcome >>,
                   Exchange(w5, requestID, 0, 0, 1, FALSE, ~encodeOk, 1, TRUE,
                            TRUE, upRid)))

B_handleHealth(cfg, req, id, encodeOk) == HealthExchange(cfg, id, encodeOk)

\* the mux NewServer builds for service-b
B_ServeMux(cfg, req, id, up, upKey, upId, encodeOk) ==
    CASE req.path = "/process" ->
           B_handleProcess(cfg, req, id, up, upKey, upId, encodeOk)
      [] req.path = "/health"  -> B_handleHealth(cfg, req, id, encodeOk)
      [] OTHER                 -> NotFound

-----------------------------------------------------------------------------
\* main: configuration from the environment

\* os.Getenv gives "" (Empty for the keys) when the variable is absent
A_Envs ==
    { [ PORT |-> "", AUTH_KEY |-> Empty, LOG_LEVEL |-> "" ],
      [ PORT |-> "9080", AUTH_KEY |-> ComposeSecretKey, LOG_LEVEL |-> "debug" ] }

B_Envs ==
    { [ PORT |-> "", SERVICE_A_URL |-> "", SERVICE_A_AUTH_KEY |-> Empty,
        LOG_LEVEL |-> "" ],
      [ PORT |-> "9081", SERVICE_A_URL |-> "http://localhost:8080",
        SERVICE_A_AUTH_KEY |-> ComposeSecretKey, LOG_LEVEL |-> "debug" ],
      [ PORT |-> "", SERVICE_A_URL |-> "::bad", SERVICE_A_AUTH_KEY |-> Empty,
        LOG_LEVEL |-> "" ] }

\* a main that takes AUTH_KEY as it is
A_mainConfig_NoDefault(e) ==
    [ Port     |-> IF e.PORT = "" THEN "8080" ELSE e.PORT,
      LogLevel |-> "INFO",
      AuthKey  |-> e.AUTH_KEY ]

\* service-a's main up to NewServer
A_mainConfig(e) ==
    [ Port     |-> IF e.PORT = "" THEN "8080" ELSE e.PORT,
      LogLevel |-> "INFO",
      AuthKey  |-> IF e.AUTH_KEY = Empty THEN DefaultSecretKey ELSE e.AUTH_KEY ]

\* service-b's main up to NewServer
B_mainConfig(e) ==
    [ Port            |-> IF e.PORT = "" THEN "8081" ELSE e.PORT,
      LogLevel        |-> "INFO",
      ServiceAURL     |-> IF e.SERVICE_A_URL = "" THEN "http://service-a:8080"
                          ELSE e.SERVICE_A_URL,
      ServiceAAuthKey |-> IF e.SERVICE_A_AUTH_KEY = Empty THEN DefaultSecretKey
                          ELSE e.SERVICE_A_AUTH_KEY ]

\* what service-a's main logs while it fills in the defaults
A_mainLogs(e) ==
    (IF e.PORT = ""
     THEN << LogRecord("INFO", "No port specified, using default",
                       { "default_port" }, NoId, NoStatus, Empty) >>
     ELSE << >>)
    \o (IF e.AUTH_KEY = Empty
        THEN << LogRecord("WARN", "No authentication key provided, using default. This is NOT recommended for production!",
                          { "default_key" }, NoId, NoStatus,
                          A_maskAuthKey(DefaultSecretKey)) >>
        ELSE << >>)

\* what service-b's main logs while it fills in the defaults
B_mainLogs(e) ==
    (IF e.PORT = ""
     THEN << LogRecord("INFO", "No port specified, using default",
                       { "default_port" }, NoId, NoStatus, Empty) >>
     ELSE << >>)
    \o (IF e.SERVICE_A_URL = ""
        THEN << LogRecord("WARN", "No Service A URL specified, using default",
                          { "default_url" }, NoId, NoStatus, Empty) >>
        ELSE << >>)
    \o (IF e.SERVICE_A_AUTH_KEY = Empty
        THEN << LogRecord("WARN", "No authentication key provided, using default. This is NOT recommended for production!",
                          { "default_key" }, NoId, NoStatus,
                          B_maskAuthKey(DefaultSecretKey)) >>
        ELSE << >>)

-----------------------------------------------------------------------------
\* The environment's inputs.

\* values of the X-Auth-Key request header; Empty is the header being absent
HeaderKeys == { Empty, Mask, NearMissKey, ComposeSecretKey, DefaultSecretKey }

NoUpstream ==
    [ kind |-> "none", status |-> NoStatus, payload |-> TextChunk(""),
      readErr |-> FALSE ]

ForeignGreeting == Chunk("greeting", "Hola", "", 99, "", "")

\* what the outbound call can meet
Upstreams ==
    { [ kind |-> "unreachable", status |-> NoStatus, payload |-> TextChunk(""),
        readErr |-> FALSE ],
      [ kind |-> "service-a", status |-> NoStatus, payload |-> TextChunk(""),
        readErr |-> FALSE ],
      [ kind |-> "other", status |-> StatusOK, payload |-> ForeignGreeting,
        readErr |-> FALSE ],
      [ kind |-> "other", status |-> StatusOK, payload |-> ForeignGreeting,
        readErr |-> TRUE ],
      [ kind |-> "other", status |-> StatusOK, payload |-> TextChunk("<html>"),
        readErr |-> FALSE ],
      [ kind |-> "other", status |-> StatusNotFound,
        payload |-> TextChunk("404 page not found"), readErr |-> FALSE ],
      [ kind |-> "other", status |-> StatusInternalServerError,
        payload |-> TextChunk("oops"), readErr |-> FALSE ] }

\* how long a handler runs: at once (/greet, /health), until the outbound
\* call times out (/process), or stalled until the connection's write deadline
Durations == { 0, ClientTimeout, WriteTimeout }

\* the clock advances in steps of the smallest timeout
TimeStep == ClientTimeout

-----------------------------------------------------------------------------
\* main has read the environment and built the server
InitConfig ==
    /\ svc \in { "a", "b" }
    /\ env \in IF svc = "a" THEN A_Envs ELSE B_Envs
    /\ config = IF svc = "a" THEN A_mainConfig(env) ELSE B_mainConfig(env)
    /\ upstreamKey \in IF svc = "a" THEN { Empty }
                       ELSE { DefaultSecretKey, ComposeSecretKey }

\* The process in service: the listener is registered with the server, the
\* accept loop runs and the main path waits in <-stop.
Init ==
    /\ InitConfig
    /\ stop = 0
    /\ signalled = FALSE
    /\ mainPc = "wait"
    /\ servePc = "accept"
    /\ inShutdown = FALSE
    /\ listener = "tracked"
    /\ conns = << >>
    /\ now = 0
    /\ sdStart = -1
    /\ sdErr = "pending"
    /\ exitCode = -1
    /\ nextId = 1
    /\ last = << >>

\* The process at its start, with nothing in the environment: main has built
\* the server and installed signal.Notify, the serving goroutine has not run.
InitLifecycle ==
    /\ svc \in { "a", "b" }
    /\ env = IF svc = "a"
             THEN [ PORT |-> "", AUTH_KEY |-> Empty, LOG_LEVEL |-> "" ]
             ELSE [ PORT |-> "", SERVICE_A_URL |-> "",
                    SERVICE_A_AUTH_KEY |-> Empty, LOG_LEVEL |-> "" ]
    /\ config = IF svc = "a" THEN A_mainConfig(env) ELSE B_mainConfig(env)
    /\ upstreamKey = IF svc = "a" THEN Empty ELSE DefaultSecretKey
    /\ stop = 0
    /\ signalled = FALSE
    /\ mainPc = "wait"
    /\ servePc = "start"
    /\ inShutdown = FALSE
    /\ listener = "none"
    /\ conns = << >>
    /\ now = 0
    /\ sdStart = -1
    /\ sdErr = "pending"
    /\ exitCode = -1
    /\ nextId = 1
    /\ last = << >>

Running == exitCode = -1

Active(c) == conns[c].state = "active"

\* a shutdown context created with the idle timeout's 15 s
Deadline_IdleTimeout == sdStart + IdleTimeout

\* context.WithTimeout(context.Background(), 10*time.Second): its deadline
Deadline == sdStart + ShutdownWindow

Min(S) == CHOOSE x \in S : \A y \in S : x <= y

-----------------------------------------------------------------------------
\* The environment: signals and time.

\* SIGINT or SIGTERM reaches signal.Notify's channel of capacity 1
Signal ==
    /\ Running
    /\ ~signalled
    /\ stop' = 1
    /\ signalled' = TRUE
    /\ conns' = [ c \in DOMAIN conns |->
                    IF Active(c) THEN [conns[c] EXCEPT !.atSignal = TRUE]
                    ELSE conns[c] ]
    /\ UNCHANGED << svc, env, config, upstreamKey, mainPc, servePc, inShutdown,
                    listener, now, sdStart, sdErr, exitCode, nextId, last >>

\* Time passes, to the next step or to the next instant something is due: a
\* handler due now runs before the clock moves, and so does the shutdown
\* context's expiry.
Tick ==
    /\ Running
    /\ \A c \in DOMAIN conns : Active(c) => conns[c].doneAt > now
    /\ IF sdStart < 0 THEN now < MaxTime ELSE now < Deadline
    /\ now' = Min({ now + TimeStep }
                  \cup { conns[c].doneAt : c \in { d \in DOMAIN conns : Active(d) } }
                  \cup (IF sdStart < 0 THEN {} ELSE { Deadline }))
    /\ UNCHANGED << svc, env, config, upstreamKey, stop, signalled, mainPc,
                    servePc, inShutdown, listener, conns, sdStart, sdErr,
                    exitCode, nextId, last >>

-----------------------------------------------------------------------------
\* The serving goroutine: server.Start, http.Server.ListenAndServe.

\* Start logs and calls ListenAndServe: ErrServerClosed at once when Shutdown
\* has begun, else net.Listen binds the port or fails
ServeListen ==
    /\ Running
    /\ servePc = "start"
    /\ \/ /\ inShutdown
          /\ servePc' = "done"
          /\ UNCHANGED listener
       \/ /\ ~inShutdown
          /\ \E bindOk \in BOOLEAN :
               IF bindOk
               THEN listener' = "bound" /\ servePc' = "track"
               ELSE listener' = "failed" /\ servePc' = "bindfail"
    /\ UNCHANGED << svc, env, config, upstreamKey, stop, signalled, mainPc,
                    inShutdown, conns, now, sdStart, sdErr, exitCode, nextId,
                    last >>

\* Serve registers the listener unless Shutdown has begun, in which case it
\* closes the listener and returns ErrServerClosed
ServeTrack ==
    /\ Running
    /\ servePc = "track"
    /\ IF inShutdown
       THEN listener' = "closed" /\ servePc' = "done"
       ELSE listener' = "tracked" /\ servePc' = "accept"
    /\ UNCHANGED << svc, env, config, upstreamKey, stop, signalled, mainPc,
                    inShutdown, conns, now, sdStart, sdErr, exitCode, nextId,
                    last >>

NewConn(d) ==
    [ state |-> "active", doneAt |-> now + d, atSignal |-> FALSE,
      afterSignal |-> signalled, status |-> NoStatus ]

\* the accept loop takes a connection and starts its goroutine; the request's
\* handler will have run for d seconds when it ends
Accept ==
    /\ Running
    /\ servePc = "accept"
    /\ listener = "tracked"
    /\ Len(conns) < MaxConns
    /\ \E d \in Durations : conns' = Append(conns, NewConn(d))
    /\ UNCHANGED << svc, env, config, upstreamKey, stop, signalled, mainPc,
                    servePc, inShutdown, listener, now, sdStart, sdErr,
                    exitCode, nextId, last >>

\* Accept fails on the closed listener: Serve returns ErrServerClosed, Start
\* returns nil and the goroutine ends
ServeClosed ==
    /\ Running
    /\ servePc = "accept"
    /\ listener = "closed"
    /\ servePc' = "done"
    /\ UNCHANGED << svc, env, config, upstreamKey, stop, signalled, mainPc,
                    inShutdown, listener, conns, now, sdStart, sdErr, exitCode,
                    nextId, last >>

\* a goroutine that logs the bind error and returns
ServeExit_Return ==
    /\ Running
    /\ servePc = "bindfail"
    /\ servePc' = "done"
    /\ UNCHANGED << svc, env, config, upstreamKey, stop, signalled, mainPc,
                    inShutdown, listener, conns, now, sdStart, sdErr, exitCode,
                    nextId, last >>

\* Start returned the bind error: the goroutine logs it and calls os.Exit(1)
ServeExit ==
    /\ Running
    /\ servePc = "bindfail"
    /\ exitCode' = 1
    /\ servePc' = "done"
    /\ UNCHANGED << svc, env, config, upstreamKey, stop, signalled, mainPc,
                    inShutdown, listener, conns, now, sdStart, sdErr, nextId,
                    last >>

-----------------------------------------------------------------------------
\* A connection's goroutine: the mux and the handler, run to the end.

\* handlers sharing a request counter: only the first request is served
Serve_Counted(req, id, up, encodeOk) ==
    IF nextId > 1
    THEN Exchange(HttpError(NewWriter, "Too Many Requests",
                            StatusServiceUnavailable),
                  id, 0, 0, 0, FALSE, FALSE, 1, FALSE, FALSE, NoId)
    ELSE IF svc = "a"
    THEN A_ServeMux(config, req, id, encodeOk)
    ELSE B_ServeMux(config, req, id, up, upstreamKey, id + 1, encodeOk)

Serve(req, id, up, encodeOk) ==
    IF svc = "a"
    THEN A_ServeMux(config, req, id, encodeOk)
    ELSE B_ServeMux(config, req, id, up, upstreamKey, id + 1, encodeOk)

\* identifiers minted while serving: the handler's own and, when a genuine
\* service-a answered the outbound call, the one it minted
IdsMinted(x, up) ==
    x.idsUsed + (IF x.outbound = 1 /\ up.kind = "service-a" THEN 1 ELSE 0)

\* the request req is served on connection c, the outbound call meeting up
Handle(c, req, up, encodeOk) ==
    LET x == Serve(req, nextId, up, encodeOk)
    IN  /\ Running
        /\ Active(c)
        /\ conns[c].doneAt <= now
        /\ last' = << [ req |-> req, up |-> up, encodeOk |-> encodeOk,
                        x |-> x ] >>
        /\ nextId' = nextId + IdsMinted(x, up)
        /\ conns' = [conns EXCEPT
                       ![c].state = IF x.panicked THEN "panicked" ELSE "done",
                       ![c].status = x.w.status]
        /\ UNCHANGED << svc, env, config, upstreamKey, stop, signalled, mainPc,
                        servePc, inShutdown, listener, now, sdStart, sdErr,
                        exitCode >>

Request(path, key) == [ path |-> path, authKey |-> key, ctx |-> BaseContext ]

Input(path, key, up, encodeOk) ==
    [ req |-> Request(path, key), up |-> up, encodeOk |-> encodeOk ]

\* What a connection of service-a can bring: /greet with every key, /health
\* with and without a key, and paths the mux does not know.
A_Inputs ==
    { Input("/greet", k, NoUpstream, e) : k \in HeaderKeys, e \in BOOLEAN }
    \cup { Input("/health", k, NoUpstream, e) :
             k \in { Empty, ComposeSecretKey }, e \in BOOLEAN }
    \cup { Input(p, Empty, NoUpstream, TRUE) : p \in { "/process", "/other" } }

\* What a connection of service-b can bring, with what the outbound call of
\* /process meets.
B_Inputs ==
    { Input("/process", Empty, u, e) : u \in Upstreams, e \in BOOLEAN }
    \cup { Input("/health", k, u, e) :
             k \in { Empty, ComposeSecretKey },
             u \in { up \in Upstreams : up.kind \in { "unreachable", "service-a" } },
             e \in BOOLEAN }
    \cup { Input(p, Empty, NoUpstream, TRUE) : p \in { "/greet", "/other" } }

\* a connection's handler ends, whatever the request and the upstream were
Finish(c) ==
    \E in \in (IF svc = "a" THEN A_Inputs ELSE B_Inputs) :
      Handle(c, in.req, in.up, in.encodeOk)

\* the requests of the lifecycle's workload: an unauthenticated /health, and
\* the service's own endpoint called without a key while no upstream answers
FinishSample(c) ==
    \E path \in { "/health", IF svc = "a" THEN "/greet" ELSE "/process" } :
      Handle(c, Request(path, Empty),
             IF svc = "a" THEN NoUpstream
             ELSE [ kind |-> "unreachable", status |-> NoStatus,
                    payload |-> TextChunk(""), readErr |-> FALSE ],
             TRUE)

-----------------------------------------------------------------------------
\* The main path: <-stop, context.WithTimeout, server.Shutdown, return.

\* <-stop returns; the 10 s context starts now
MainSignal ==
    /\ Running
    /\ mainPc = "wait"
    /\ stop = 1
    /\ stop' = 0
    /\ sdStart' = now
    /\ mainPc' = "shutdown"
    /\ UNCHANGED << svc, env, config, upstreamKey, signalled, servePc,
                    inShutdown, listener, conns, now, sdErr, exitCode, nextId,
                    last >>

\* Shutdown logs and http.Server.Shutdown sets inShutdown
ShutdownBegin ==
    /\ Running
    /\ mainPc = "shutdown"
    /\ inShutdown' = TRUE
    /\ mainPc' = "closeListeners"
    /\ UNCHANGED << svc, env, config, upstreamKey, stop, signalled, servePc,
                    listener, conns, now, sdStart, sdErr, exitCode, nextId,
                    last >>

\* a shutdown that leaves the listeners open
CloseListeners_LeftOpen ==
    /\ Running
    /\ mainPc = "closeListeners"
    /\ mainPc' = "checkIdle"
    /\ UNCHANGED << svc, env, config, upstreamKey, stop, signalled, servePc,
                    inShutdown, listener, conns, now, sdStart, sdErr, exitCode,
                    nextId, last >>

\* closeListenersLocked closes the listeners Serve has registered
CloseListeners ==
    /\ Running
    /\ mainPc = "closeListeners"
    /\ listener' = IF listener = "tracked" THEN "closed" ELSE listener
    /\ mainPc' = "checkIdle"
    /\ UNCHANGED << svc, env, config, upstreamKey, stop, signalled, servePc,
                    inShutdown, conns, now, sdStart, sdErr, exitCode, nextId,
                    last >>

Quiescent == \A c \in DOMAIN conns : ~Active(c)

\* a shutdown that returns without waiting for the busy connections
ShutdownCheckIdle_NoWait ==
    /\ Running
    /\ mainPc = "checkIdle"
    /\ sdErr' = "nil"
    /\ mainPc' = "returned"
    /\ UNCHANGED << svc, env, config, upstreamKey, stop, signalled, servePc,
                    inShutdown, listener, conns, now, sdStart, exitCode,
                    nextId, last >>

\* closeIdleConns: Shutdown returns nil when no connection is busy, else waits
\* on the context and the poll timer
ShutdownCheckIdle ==
    /\ Running
    /\ mainPc = "checkIdle"
    /\ IF Quiescent
       THEN sdErr' = "nil" /\ mainPc' = "returned"
       ELSE sdErr' = sdErr /\ mainPc' = "poll"
    /\ UNCHANGED << svc, env, config, upstreamKey, stop, signalled, servePc,
                    inShutdown, listener, conns, now, sdStart, exitCode,
                    nextId, last >>

\* the poll timer fires
ShutdownPoll ==
    /\ Running
    /\ mainPc = "poll"
    /\ mainPc' = "checkIdle"
    /\ UNCHANGED << svc, env, config, upstreamKey, stop, signalled, servePc,
                    inShutdown, listener, conns, now, sdStart, sdErr, exitCode,
                    nextId, last >>

\* the context's deadline passes: Shutdown returns context.DeadlineExceeded
ShutdownTimeout ==
    /\ Running
    /\ mainPc = "poll"
    /\ now >= Deadline
    /\ sdErr' = "deadline"
    /\ mainPc' = "returned"
    /\ UNCHANGED << svc, env, config, upstreamKey, stop, signalled, servePc,
                    inShutdown, listener, conns, now, sdStart, exitCode,
                    nextId, last >>

\* a main that ends with os.Exit(1) when Shutdown returned an error
MainExit_FatalOnError ==
    /\ Running
    /\ mainPc = "returned"
    /\ exitCode' = IF sdErr = "deadline" THEN 1 ELSE 0
    /\ mainPc' = "exited"
    /\ UNCHANGED << svc, env, config, upstreamKey, stop, signalled, servePc,
                    inShutdown, listener, conns, now, sdStart, sdErr, nextId,
                    last >>

\* main logs the outcome and returns: the process ends with status 0
MainExit ==
    /\ Running
    /\ mainPc = "returned"
    /\ exitCode' = 0
    /\ mainPc' = "exited"
    /\ UNCHANGED << svc, env, config, upstreamKey, stop, signalled, servePc,
                    inShutdown, listener, conns, now, sdStart, sdErr, nextId,
                    last >>

-----------------------------------------------------------------------------

\* The process in service: connections come in and are served.
Next ==
    \/ Accept
    \/ Tick
    \/ \E c \in DOMAIN conns : Finish(c)

Spec == Init /\ [][Next]_vars

\* The whole life of the process, from the start of main to its exit.
NextLifecycle ==
    \/ Signal
    \/ Tick
    \/ ServeListen
    \/ ServeTrack
    \/ Accept
    \/ ServeClosed
    \/ ServeExit
    \/ \E c \in DOMAIN conns : FinishSample(c)
    \/ MainSignal
    \/ ShutdownBegin
    \/ CloseListeners
    \/ ShutdownCheckIdle
    \/ ShutdownPoll
    \/ ShutdownTimeout
    \/ MainExit

SpecLifecycle == InitLifecycle /\ [][NextLifecycle]_vars

\* What the Go scheduler and the clock give: a goroutine that can step does
\* step (the main path, the serving goroutine, a handler that is due), time
\* goes on, and Shutdown's select takes ctx.Done() once the deadline is past,
\* however often the poll timer has fired before.
Fairness ==
    /\ WF_vars(MainSignal)
    /\ WF_vars(ShutdownBegin)
    /\ WF_vars(CloseListeners)
    /\ WF_vars(ShutdownCheckIdle)
    /\ WF_vars(ShutdownPoll)
    /\ SF_vars(ShutdownTimeout)
    /\ WF_vars(MainExit)
    /\ WF_vars(ServeListen)
    /\ WF_vars(ServeTrack)
    /\ WF_vars(ServeClosed)
    /\ WF_vars(ServeExit)
    /\ WF_vars(\E c \in DOMAIN conns : FinishSample(c))
    /\ WF_vars(Tick)

SpecLifecycleFair == SpecLifecycle /\ Fairness

-----------------------------------------------------------------------------
\* maskAuthKey on its own: a key comes in through AUTH_KEY and both services'
\* copies of the function are applied to it.

MaskAlphabet == { "a", "b", "*" }

MaskInputs == UNION { [ 1..n -> MaskAlphabet ] : n \in 0..MaxKeyLen }

InitMask ==
    /\ svc = "a"
    /\ env \in { [ PORT |-> "", AUTH_KEY |-> k, LOG_LEVEL |-> "" ] :
                    k \in MaskInputs }
    /\ config = A_mainConfig(env)
    /\ upstreamKey = Empty
    /\ stop = 0
    /\ signalled = FALSE
    /\ mainPc = "wait"
    /\ servePc = "start"
    /\ inShutdown = FALSE
    /\ listener = "none"
    /\ conns = << >>
    /\ now = 0
    /\ sdStart = -1
    /\ sdErr = "pending"
    /\ exitCode = -1
    /\ nextId = 1
    /\ last = << >>

\* both copies applied to the key
MaskApply ==
    /\ last = << >>
    /\ last' = << [ key |-> env.AUTH_KEY, a |-> A_maskAuthKey(env.AUTH_KEY),
                    b |-> B_maskAuthKey(env.AUTH_KEY) ] >>
    /\ UNCHANGED << svc, env, config, upstreamKey, stop, signalled, mainPc,
                    servePc, inShutdown, listener, conns, now, sdStart, sdErr,
                    exitCode, nextId >>

NextMask == MaskApply

SpecMask == InitMask /\ [][NextMask]_vars

-----------------------------------------------------------------------------
\* Properties.

Handled == Len(last) = 1

L == last[1]

OnPath(svcName, path) == Handled /\ svc = svcName /\ L.req.path = path

\* the body as the client reads it: the JSON values of a kind
JsonChunks(kind) ==
    { i \in 1..Len(L.x.w.body) : L.x.w.body[i].kind = kind }

\* C1: a /greet request of service-a whose X-Auth-Key is absent or is not the
\* configured secret is answered 401, and handleGreet does not run for it: no
\* call, no greeting in the body.
C1_RejectedWithoutGreeting ==
    (OnPath("a", "/greet") /\ L.req.authKey # config.AuthKey)
        => /\ L.x.w.status = StatusUnauthorized
           /\ L.x.greetCalls = 0
           /\ JsonChunks("greeting") = {}

C1_Witness ==
    /\ OnPath("a", "/greet")
    /\ config.AuthKey = ComposeSecretKey
    /\ L.req.authKey = NearMissKey
    /\ L.x.w.status = StatusUnauthorized

\* C2: a /greet request of service-a whose X-Auth-Key is the configured secret
\* is answered 200 with the request's id in X-Request-ID; every greeting in
\* the body carries that same id as request_id, and the body is that one
\* greeting when the encoder reported no error.
C2_AcceptedIdsAgree ==
    (OnPath("a", "/greet") /\ L.req.authKey = config.AuthKey)
        => /\ L.x.w.status = StatusOK
           /\ L.x.w.xRequestID # NoId
           /\ L.x.w.xRequestID = L.x.rid
           /\ \A i \in JsonChunks("greeting") :
                L.x.w.body[i].request_id = L.x.w.xRequestID
           /\ ~L.x.encodeErr =>
                /\ Len(L.x.w.body) = 1
                /\ JsonChunks("greeting") = { 1 }

C2_Witness ==
    /\ OnPath("a", "/greet")
    /\ L.req.authKey = config.AuthKey
    /\ L.encodeOk
    /\ L.x.w.status = StatusOK
    /\ L.x.w.body[1].request_id = L.x.w.xRequestID

\* the outbound call of /process was made and came back with status 200 and
\* a body that reads and decodes as a greeting
UpstreamGreets ==
    /\ OnPath("b", "/process")
    /\ ValidURL(config.ServiceAURL)
    /\ \/ /\ L.up.kind = "other"
          /\ L.up.status = StatusOK
          /\ ~L.up.readErr
          /\ L.up.payload.kind = "greeting"
       \/ /\ L.up.kind = "service-a"
          /\ config.ServiceAAuthKey = upstreamKey

\* the message of the greeting the upstream sent
UpstreamMessage ==
    IF L.up.kind = "service-a" THEN "Hello from Service A!"
    ELSE L.up.payload.message

\* C3: a /process request whose outbound call returns 200 with a decodable
\* greeting is answered 200, and the body, when the encoder reported no
\* error, is the combined response with the upstream's message and the
\* message "Hello from Service B!".
C3_CombinedOnUpstream200 ==
    UpstreamGreets
        => /\ L.x.w.status = StatusOK
           /\ ~L.x.encodeErr =>
                /\ Len(L.x.w.body) = 1
                /\ L.x.w.body[1].kind = "combined"
                /\ L.x.w.body[1].message = UpstreamMessage
                /\ L.x.w.body[1].service_b_message = "Hello from Service B!"

C3_Witness ==
    /\ UpstreamGreets
    /\ L.up.kind = "other"
    /\ L.encodeOk
    /\ L.x.w.status = StatusOK
    /\ L.x.w.body[1].message = "Hola"
    /\ L.x.w.body[1].service_b_message = "Hello from Service B!"

\* C4: a /process request whose outbound call fails at dispatch is answered
\* 503.
C4_Unreachable503 ==
    (OnPath("b", "/process") /\ ValidURL(config.ServiceAURL)
       /\ L.up.kind = "unreachable")
        => L.x.w.status = StatusServiceUnavailable

\* the status the upstream answered the outbound call with
UpstreamStatus ==
    IF L.up.kind = "service-a"
    THEN (IF config.ServiceAAuthKey = upstreamKey THEN StatusOK
          ELSE StatusUnauthorized)
    ELSE L.up.status

\* C5: a /process request whose outbound call returns a status S other than
\* 200 is answered with status S.
C5_UpstreamStatusPropagated ==
    (OnPath("b", "/process") /\ ValidURL(config.ServiceAURL)
       /\ L.up.kind \in { "other", "service-a" }
       /\ UpstreamStatus # StatusOK)
        => L.x.w.status = UpstreamStatus

\* C6: a /process request whose outbound call returns 200 with a body that
\* cannot be read or is not JSON is answered 500.
C6_BadBody500 ==
    (OnPath("b", "/process") /\ ValidURL(config.ServiceAURL)
       /\ L.up.kind = "other" /\ L.up.status = StatusOK
       /\ (L.up.readErr \/ L.up.payload.kind = "text"))
        => L.x.w.status = StatusInternalServerError

\* the response carries the id: in X-Request-ID or as a body's request_id
CarriesId(id) ==
    \/ L.x.w.xRequestID = id
    \/ \E i \in 1..Len(L.x.w.body) : L.x.w.body[i].request_id = id

\* C7: every handler's response, success or failure, carries the correlation
\* id minted for its request, and that id is one no earlier request got.
C7_EveryResponseCarriesId ==
    (Handled /\ L.x.idsUsed > 0)
        => /\ L.x.rid # NoId
           /\ L.x.rid < nextId
           /\ L.x.w.status # NoStatus
           /\ CarriesId(L.x.rid)

\* C8: /health of either service is answered 200 whatever the X-Auth-Key
\* header and whatever the upstream, without a credential check and without
\* an outbound call.
C8_HealthAlways200 ==
    (Handled /\ L.req.path = "/health")
        => /\ L.x.w.status = StatusOK
           /\ L.x.authChecks = 0
           /\ L.x.outbound = 0
           /\ ~L.x.panicked

C8_Witness ==
    /\ OnPath("a", "/health")
    /\ L.req.authKey = Empty
    /\ L.encodeOk
    /\ L.x.w.status = StatusOK
    /\ L.x.w.body[1].server_port = config.Port

ListenersClosed == mainPc \in { "checkIdle", "poll", "returned", "exited" }

\* C9 as claimed: from the delivery of the termination signal on, no
\* connection is accepted.
C9_NoAcceptAfterSignal ==
    [][signalled => Len(conns') = Len(conns)]_vars

\* C9: from the moment Shutdown has closed the listeners on, no connection is
\* accepted.
C9_NoAcceptAfterListenersClosed ==
    [][ListenersClosed => Len(conns') = Len(conns)]_vars

C9_Witness ==
    /\ signalled
    /\ mainPc = "poll"
    /\ servePc = "accept"
    /\ listener = "closed"
    /\ Len(conns) = 1
    /\ conns[1].afterSignal

\* C10: when the process has exited, every connection whose request was in
\* flight at the signal and whose handler was due to end before the shutdown
\* context's deadline was let run to its end, and, its handler having
\* returned, got its response.
C10_InFlightAnswered ==
    (exitCode # -1)
        => \A c \in DOMAIN conns :
             (conns[c].atSignal /\ conns[c].doneAt < Deadline)
                 => /\ conns[c].state # "active"
                    /\ conns[c].state = "done" => conns[c].status # NoStatus

C10_Witness ==
    /\ exitCode = 0
    /\ sdErr = "deadline"
    /\ \E c \in DOMAIN conns :
         /\ conns[c].atSignal
         /\ conns[c].doneAt > sdStart
         /\ conns[c].doneAt < Deadline
         /\ conns[c].state = "done"
         /\ conns[c].status = StatusOK

C12_BindFailureIsFatal ==
    listener = "failed" =>
        /\ conns = << >>
        /\ last = << >>
        /\ Running => servePc = "bindfail"
        /\ (~Running /\ ~signalled) => exitCode = 1

\* the bind failed and the process is gone with status 1, no signal sent
C12_Witness ==
    listener = "failed" /\ exitCode = 1 /\ ~signalled /\ mainPc = "wait"

\* C13: maskAuthKey gives "****" for a key of at most 4 bytes; for a longer
\* key it gives 8 bytes: the key's first two, "****", the key's last two,
\* whatever the bytes are; and service-b's copy gives what service-a's gives.
C13_MaskShape ==
    Len(last) = 1 =>
        LET k == last[1].key
            m == last[1].a
        IN  /\ last[1].b = m
            /\ Len(k) <= 4 => m = << "*", "*", "*", "*" >>
            /\ Len(k) > 4 =>
                 /\ Len(m) = 8
                 /\ m[1] = k[1] /\ m[2] = k[2]
                 /\ \A i \in 3..6 : m[i] = "*"
                 /\ m[7] = k[Len(k) - 1] /\ m[8] = k[Len(k)]

\* a key of 5 bytes whose ends tell the positions apart, masked by both
C13_Witness ==
    /\ Len(last) = 1
    /\ last[1].key = << "a", "b", "a", "*", "b" >>
    /\ last[1].a = << "a", "b", "*", "*", "*", "*", "*", "b" >>
    /\ last[1].b = last[1].a

\* the attributes a key is logged under
CredentialAttrs == { "auth_key_provided", "auth_key_masked", "default_key" }

\* everything the process has logged: main's records, then the records of
\* the request served last
AllLogs ==
    (IF svc = "a" THEN A_mainLogs(env) ELSE B_mainLogs(env))
    \o (IF Handled THEN L.x.logs ELSE << >>)

CredentialRecords ==
    { i \in 1..Len(AllLogs) : AllLogs[i].attrs \cap CredentialAttrs # {} }

\* the credential a record's key attribute stands for
RawOf(rec) ==
    CASE "auth_key_provided" \in rec.attrs -> L.req.authKey
      [] OTHER -> IF svc = "a" THEN config.AuthKey ELSE config.ServiceAAuthKey

\* a key that maskAuthKey gives back as it is
SelfMasked(raw) ==
    \/ raw = << "*", "*", "*", "*" >>
    \/ Len(raw) = 8 /\ \A i \in 3..6 : raw[i] = "*"

\* C14 as stated: every key a log record carries differs from the raw
\* credential it stands for.
C14_MaskedDiffersFromRaw ==
    \A i \in CredentialRecords : AllLogs[i].key # RawOf(AllLogs[i])

\* C14, amended: a log record carries a key only under the three credential
\* attributes and only in maskAuthKey's form ("****" for a credential of at
\* most 4 bytes, else its first two bytes, "****", its last two bytes), and
\* that form is the raw credential only when the credential is itself of
\* that form.
C14_LoggedOnlyMasked ==
    \A i \in 1..Len(AllLogs) :
      LET k == AllLogs[i].key
          raw == RawOf(AllLogs[i])
      IN  IF i \in CredentialRecords
          THEN /\ Len(raw) <= 4 => k = << "*", "*", "*", "*" >>
               /\ Len(raw) > 4 =>
                    /\ Len(k) = 8
                    /\ k[1] = raw[1] /\ k[2] = raw[2]
                    /\ \A j \in 3..6 : k[j] = "*"
                    /\ k[7] = raw[Len(raw) - 1] /\ k[8] = raw[Len(raw)]
               /\ k = raw => SelfMasked(raw)
          ELSE k = Empty

\* a failed authentication with a 20-byte key, logged as "se****ex"
C14_Witness ==
    /\ OnPath("a", "/greet")
    /\ L.req.authKey = NearMissKey
    /\ \E i \in CredentialRecords :
         /\ AllLogs[i].msg = "Authentication failed"
         /\ AllLogs[i].key = << "s", "e", "*", "*", "*", "*", "e", "x" >>

\* C15: the outbound call's timeout is strictly shorter than the server's
\* read timeout and than its write timeout, and a /process request whose
\* upstream never answers has its failure response written.
C15_ClientTimeoutShortest ==
    (OnPath("b", "/process") /\ ValidURL(config.ServiceAURL)
       /\ L.up.kind = "unreachable")
        => /\ ClientTimeout < ReadTimeout
           /\ ClientTimeout < WriteTimeout
           /\ L.x.w.status # NoStatus

\* the slog level an environment value names
LevelNamed(v) ==
    CASE v = "debug" -> "DEBUG"
      [] v = "warn"  -> "WARN"
      [] v = "error" -> "ERROR"
      [] OTHER       -> "INFO"

\* C16: after startup the port, the upstream URL and the secret are the
\* environment's values when set and the defaults otherwise, and the minimum
\* log level is the one LOG_LEVEL names.
C16_ConfigFollowsEnv ==
    /\ config.Port = IF env.PORT # "" THEN env.PORT
                     ELSE IF svc = "a" THEN "8080" ELSE "8081"
    /\ svc = "a" =>
         config.AuthKey = IF env.AUTH_KEY # Empty THEN env.AUTH_KEY
                          ELSE DefaultSecretKey
    /\ svc = "b" =>
         /\ config.ServiceAURL = IF env.SERVICE_A_URL # ""
                                 THEN env.SERVICE_A_URL
                                 ELSE "http://service-a:8080"
         /\ config.ServiceAAuthKey = IF env.SERVICE_A_AUTH_KEY # Empty
                                     THEN env.SERVICE_A_AUTH_KEY
                                     ELSE DefaultSecretKey
    /\ config.LogLevel = LevelNamed(env.LOG_LEVEL)

\* C18: no handler run ends in the panic of the type assertion on the
\* context's "request_id".
C18_ContextReadNeverPanics ==
    Handled => ~L.x.panicked

\* a /process request whose outbound call does not bring a greeting back
OutboundCallError == OnPath("b", "/process") /\ ~UpstreamGreets

ErrorRecords ==
    { i \in 1..Len(L.x.logs) : L.x.logs[i].level = "ERROR" }

\* C19: on every outbound call error of /process exactly one ERROR record is
\* logged, with the error, the request's id, the client address, the method,
\* the path and the status code, and the response body is the plain text of
\* that record's message.
C19_OneErrorRecordAndBody ==
    OutboundCallError =>
        /\ Cardinality(ErrorRecords) = 1
        /\ \A i \in ErrorRecords :
             /\ { "error", "request_id", "client_ip", "method", "path",
                  "status_code" } \subseteq L.x.logs[i].attrs
             /\ L.x.logs[i].request_id = L.x.rid
             /\ L.x.logs[i].status_code = L.x.w.status
             /\ Len(L.x.w.body) = 1
             /\ L.x.w.body[1].kind = "text"
             /\ L.x.w.body[1].text = L.x.logs[i].msg

\* the verdicts authMiddleware logged for the request
Verdicts(msg) ==
    { i \in 1..Len(L.x.logs) : L.x.logs[i].msg = msg }

Verified == Verdicts("Authentication successful") # {}

Rejected == Verdicts("Authentication failed") # {}

\* C20: a /greet request of service-a has its credential compared once and
\* gets one verdict, VERIFIED or REJECTED and not both; it is VERIFIED exactly
\* when the X-Auth-Key value is the configured secret, byte for byte; and
\* handleGreet runs once when VERIFIED and not at all when REJECTED.
C20_OneVerdict ==
    OnPath("a", "/greet") =>
        /\ L.x.authChecks = 1
        /\ Cardinality(Verdicts("Authentication successful")
                        \cup Verdicts("Authentication failed")) = 1
        /\ Verified # Rejected
        /\ Verified <=>
             /\ Len(L.req.authKey) = Len(config.AuthKey)
             /\ \A i \in 1..Len(config.AuthKey) :
                  L.req.authKey[i] = config.AuthKey[i]
        /\ L.x.greetCalls = IF Verified THEN 1 ELSE 0

\* the configured secret came in the header: VERIFIED, handleGreet ran once
C20_Witness ==
    /\ OnPath("a", "/greet")
    /\ L.req.authKey = ComposeSecretKey
    /\ config.AuthKey = ComposeSecretKey
    /\ Verified /\ ~Rejected
    /\ L.x.greetCalls = 1

\* C21: when the encoder fails in handleGreet or handleProcess, the status
\* the client receives is 500 and the body is "Internal Server Error".
C21_EncodeFailure500 ==
    (Handled /\ L.x.encodeErr)
        => /\ L.x.w.status = StatusInternalServerError
           /\ \E i \in 1..Len(L.x.w.body) :
                L.x.w.body[i].text = "Internal Server Error"

\* C22: every outbound call of /process is a GET to the configured base
\* address followed by "/greet", with X-Auth-Key the configured secret and
\* X-Request-ID the id minted for the inbound request; and a response that
\* service-b writes for that request carries that same id in its X-Request-ID
\* header and, when the body was encoded, as the body's request_id.
C22_OutboundCallShape ==
    OnPath("b", "/process") =>
        \A i \in 1..Len(L.x.sent) :
          /\ L.x.sent[i].method = "GET"
          /\ L.x.sent[i].url = << config.ServiceAURL, "/greet" >>
          /\ L.x.sent[i].xAuthKey = config.ServiceAAuthKey
          /\ L.x.sent[i].xRequestID = L.x.rid
          /\ L.x.sent[i].xRequestID # NoId
          /\ L.x.w.status # NoStatus =>
               /\ L.x.w.xRequestID = L.x.sent[i].xRequestID
               /\ \A j \in JsonChunks("combined") :
                    L.x.w.body[j].request_id = L.x.sent[i].xRequestID

\* the call went out with the compose key and its id came back in the
\* response's header and body
C22_Witness ==
    /\ OnPath("b", "/process")
    /\ Len(L.x.sent) = 1
    /\ L.x.sent[1].xAuthKey = ComposeSecretKey
    /\ L.x.sent[1].url = << "http://localhost:8080", "/greet" >>
    /\ L.x.w.status = StatusOK
    /\ L.x.w.xRequestID = L.x.sent[1].xRequestID
    /\ JsonChunks("combined") # {}

\* C23: a /process request makes at most one outbound call; when that call
\* fails (dispatch, status other than 200, unreadable or undecodable body)
\* no second call follows and the handler ends without a success response.
C23_AtMostOneCall ==
    OnPath("b", "/process") =>
        /\ Len(L.x.sent) <= 1
        /\ L.x.outbound = Len(L.x.sent)
        /\ OutboundCallError =>
             /\ L.x.w.status # StatusOK
             /\ JsonChunks("combined") = {}

\* the upstream answered 500: one call was made and no success came back
C23_Witness ==
    /\ OutboundCallError
    /\ L.up.kind = "other"
    /\ L.up.status = StatusInternalServerError
    /\ Len(L.x.sent) = 1
    /\ L.x.w.status # StatusOK

\* the outbound call of the request served last returned a response
ResponseReturned ==
    /\ OnPath("b", "/process")
    /\ ValidURL(config.ServiceAURL)
    /\ L.up.kind \in { "service-a", "other" }

\* C24: when the outbound call of /process has returned a response, its body
\* is closed by the time handleProcess ends, whichever way it ends: success,
\* status other than 200, read failure, decode failure, encode failure or a
\* panic; and no body is closed where no response was returned.
C24_BodyClosedOnEveryPath ==
    OnPath("b", "/process") =>
        /\ ResponseReturned => (L.x.bodyOpened /\ L.x.bodyClosed)
        /\ ~ResponseReturned => (~L.x.bodyOpened /\ ~L.x.bodyClosed)

\* the handler panicked after a 404 from the upstream: the deferred Close ran
C24_Witness ==
    /\ ResponseReturned
    /\ L.up.status = StatusNotFound
    /\ L.x.panicked
    /\ L.x.bodyOpened /\ L.x.bodyClosed

\* the configuration main loaded from the environment
LoadedConfig == IF svc = "a" THEN A_mainConfig(env) ELSE B_mainConfig(env)

\* the request served last, served as the only request of a fresh process
Alone ==
    IF svc = "a"
    THEN A_ServeMux(LoadedConfig, L.req, 1, L.encodeOk)
    ELSE B_ServeMux(LoadedConfig, L.req, 1, L.up, upstreamKey, 2, L.encodeOk)

\* a body without the identifiers minted for it
WithoutIds(body) ==
    [ i \in 1..Len(body) |-> [body[i] EXCEPT !.request_id = NoId] ]

C26_SecretNeverEmpty ==
    svc = "a" =>
        /\ Len(config.AuthKey) > 0
        /\ (OnPath("a", "/greet") /\ L.req.authKey = Empty) =>
             /\ L.x.w.status = StatusUnauthorized
             /\ L.x.greetCalls = 0

\* AUTH_KEY was not set, the default key took its place, and the request
\* without a header was turned away
C26_Witness ==
    /\ OnPath("a", "/greet")
    /\ env.AUTH_KEY = Empty
    /\ config.AuthKey = DefaultSecretKey
    /\ L.req.authKey = Empty
    /\ L.x.w.status = StatusUnauthorized

\* C28: a genuine upstream answers /greet with an id of its own minting, not
\* the X-Request-ID it was sent; and whatever id the upstream's greeting
\* carried, the combined response's header and request_id are the id service-b
\* minted for the inbound request, the upstream's id appearing in neither.
C28_UpstreamIdNotPassedOn ==
    UpstreamGreets =>
        /\ L.up.kind = "service-a" =>
             /\ L.x.upstreamRid # NoId
             /\ \A i \in 1..Len(L.x.sent) :
                  L.x.upstreamRid # L.x.sent[i].xRequestID
        /\ L.x.w.xRequestID = L.x.rid
        /\ \A j \in JsonChunks("combined") :
             L.x.w.body[j].request_id = L.x.rid
        /\ L.x.upstreamRid # L.x.rid => ~CarriesId(L.x.upstreamRid)

\* service-a answered with the id it minted, service-b with its own
C28_Witness ==
    /\ UpstreamGreets
    /\ L.up.kind = "service-a"
    /\ L.encodeOk
    /\ L.x.upstreamRid = L.x.rid + 1
    /\ L.x.w.xRequestID = L.x.rid
    /\ L.x.w.body[1].request_id = L.x.rid

\* C27: once a termination signal has been delivered the process ends,
\* whenever the signal came (before the listener started, while requests were
\* served, while the bind was failing); a process that ended on the main path
\* ended with status 0, also when Shutdown had timed out, and only after a
\* signal; and status 1 is the end of a process whose bind failed, no other
\* status existing.
C27_TerminatesAfterSignal ==
    /\ signalled ~> (exitCode # -1)
    /\ [](exitCode \in { -1, 0, 1 })
    /\ [](mainPc = "exited" => exitCode = 0)
    /\ [](exitCode = 0 => (signalled /\ mainPc = "exited"))
    /\ [](exitCode = 1 => listener = "failed")

\* the shutdown timed out and the process still ended with status 0
C27_Witness ==
    /\ signalled
    /\ mainPc = "exited"
    /\ sdErr = "deadline"
    /\ exitCode = 0

====
